---- MODULE Spec2Model ----
(***************************************************************************)
(* Model of the Telegram access-control bot (radionest/telegram_rasudm):   *)
(* the stores kept by DatabaseManager (users, phone whitelist, groups),    *)
(* the per-user FSM storage of the registration workflow, the handlers of  *)
(* routers/registration.py, and the dispatch of messages and callback      *)
(* queries through the admin, registration and common routers.             *)
(*                                                                         *)
(* Each handler is one action.  A DatabaseManager call is either one       *)
(* action (the whole call) or, for the calls whose reads and commit are    *)
(* separated by awaits (bind_phone_to_user, make_channel_target), a read   *)
(* step and a commit step that other calls may interleave with.            *)
(***************************************************************************)
EXTENDS Integers, FiniteSets, Sequences, TLC

\* ---------------------------------------------------------------- bounds
NumUsers == 2
NumPhones == 1
NumGroups == 2
MaxTasks == 2
MaxRows == 2

Users == 1..NumUsers
Phones == 1..NumPhones
Groups == 1..NumGroups

\* User.phone_id defaults to None (no whitelist entry bound).
NoPhone == 0

\* ---------------------------------------------------------------- state
VARIABLES
    users,       \* User table: id -> row (exists = FALSE: no row)
    whitelist,   \* PhoneWhiteList table: the phones stored
    groups,      \* TelegramGroup table: the ids stored
    target,      \* ids of the TelegramGroup rows with target = True
    fsm,         \* aiogram FSM storage: user -> [state, phone]
    binds,       \* bind_phone_to_user calls between their reads and commit
    mcts,        \* make_channel_target calls between read-targets and commit
    approved,    \* approve_chat_join_request calls issued: <<user, chat>>
    last,        \* the last handler or store call: what it was, its outcome
    lastTarget   \* argument of the last successful make_channel_target

vars == <<users, whitelist, groups, target, fsm, binds, mcts, approved, last, lastTarget>>

\* ---------------------------------------------------------------- rows
NoRow == [exists |-> FALSE, is_admin |-> FALSE, is_active |-> FALSE, phone_id |-> NoPhone]

\* User(id=user_id): is_admin = False, is_active = False, phone_id = None.
NewUser == [exists |-> TRUE, is_admin |-> FALSE, is_active |-> FALSE, phone_id |-> NoPhone]

\* PhoneWhiteList.user: the user whose phone_id is p (none: 0).
BoundUsers(us, p) == {u \in Users : us[u].exists /\ us[u].phone_id = p}

\* ---------------------------------------------------------------- FSM
NoState == "none"
wait_agreement == "wait_agreement"
waiting_phone_changed_user == "waiting_phone_changed_user"

RegisterUserStates == {wait_agreement, waiting_phone_changed_user}

FsmEmpty == [state |-> NoState, phone |-> NoPhone]

\* FSMContext.set_state: the data is kept.
SetState(f, u, s) == [f EXCEPT ![u].state = s]

\* FSMContext.set_data({"phone": phone}).
SetData(f, u, p) == [f EXCEPT ![u].phone = p]

\* FSMContext.clear: state None and data {}.
ClearState(f, u) == [f EXCEPT ![u] = FsmEmpty]

\* ---------------------------------------------------------------- log
\* h: the handler or call; u: the sender (0: none); arg: the phone or chat it
\* is about (0: none); msg: the text it branched on; reply: the message sent;
\* err: the exception it ended with
Event(h, u, arg, msg, reply, err) ==
    [h |-> h, u |-> u, arg |-> arg, msg |-> msg, reply |-> reply, err |-> err]

\* a DatabaseManager call made directly: the call and its error are kept
DbEvent(h, err) == Event(h, 0, 0, "", "none", err)

Init ==
    /\ users = [u \in Users |-> NoRow]
    /\ whitelist = {}
    /\ groups = {}
    /\ target = {}
    /\ fsm = [u \in Users |-> FsmEmpty]
    /\ binds = {}
    /\ mcts = {}
    /\ approved = {}
    /\ last = DbEvent("init", "none")
    /\ lastTarget = 0

\* settings.BOT_ADMIN_ID: the id of the default admin
BOT_ADMIN_ID == 1

\* ------------------------------------------------------- DatabaseManager
\* the value a read call returned, as the log keeps it
PyRepr(b) == IF b THEN "True" ELSE "False"

\* add_user: INSERT; the IntegrityError of an existing id is caught and logged.
AddUserStore(us, u) == IF us[u].exists THEN us ELSE [us EXCEPT ![u] = NewUser]

\* the row a call returned, as the log keeps it: is_admin, is_active, phone_id
RowRepr(r) == PyRepr(r.is_admin) \o "," \o PyRepr(r.is_active) \o "," \o ToString(r.phone_id)

\* add_user returns `user`: the refreshed new row, or after the IntegrityError
\* the User(id=user_id) it has built, which is not the stored row
AddUserResult(us, u) == NewUser

add_user(u) ==
    /\ users' = AddUserStore(users, u)
    /\ last' = Event("add_user", u, 0, "", RowRepr(AddUserResult(users, u)), "none")
    /\ UNCHANGED <<whitelist, groups, target, fsm, binds, mcts, approved, lastTarget>>

\* (variant: the missing row reported with ItemNotFoundException)
GetUserErrNotFound(us, u) == IF us[u].exists THEN "none" ELSE "ItemNotFoundException"

\* make_admin, activate_user, deactivate_user, revoke_admin, is_active:
\* session.get(User, user_id) is None raises DatabaseError, the base class
GetUserErr(us, u) == IF us[u].exists THEN "none" ELSE "DatabaseError"

\* activate_user: user.is_active = True; commit
ActivateUserStore(us, u) == IF us[u].exists THEN [us EXCEPT ![u].is_active = TRUE] ELSE us

activate_user(u) ==
    /\ users' = ActivateUserStore(users, u)
    /\ last' = Event("activate_user", u, 0, "", "none", GetUserErr(users, u))
    /\ UNCHANGED <<whitelist, groups, target, fsm, binds, mcts, approved, lastTarget>>

\* deactivate_user: user.is_active = False; commit
deactivate_user(u) ==
    /\ users' = IF users[u].exists THEN [users EXCEPT ![u].is_active = FALSE] ELSE users
    /\ last' = Event("deactivate_user", u, 0, "", "none", GetUserErr(users, u))
    /\ UNCHANGED <<whitelist, groups, target, fsm, binds, mcts, approved, lastTarget>>

\* make_admin: user.is_admin = True; commit
MakeAdminStore(us, u) == IF us[u].exists THEN [us EXCEPT ![u].is_admin = TRUE] ELSE us

make_admin(u) ==
    /\ users' = MakeAdminStore(users, u)
    /\ last' = Event("make_admin", u, 0, "", "none", GetUserErr(users, u))
    /\ UNCHANGED <<whitelist, groups, target, fsm, binds, mcts, approved, lastTarget>>

\* revoke_admin: user.is_admin = False; commit
revoke_admin(u) ==
    /\ users' = IF users[u].exists THEN [users EXCEPT ![u].is_admin = FALSE] ELSE users
    /\ last' = Event("revoke_admin", u, 0, "", "none", GetUserErr(users, u))
    /\ UNCHANGED <<whitelist, groups, target, fsm, binds, mcts, approved, lastTarget>>

\* (variant: is_admin raising for a missing row, as is_active does)
IsAdminResultRaises(us, u) ==
    [err |-> GetUserErr(us, u), val |-> us[u].exists /\ us[u].is_admin]

\* is_admin: get_user, then user.is_admin, or False for no row
IsAdminResult(us, u) == [err |-> "none", val |-> us[u].exists /\ us[u].is_admin]

\* is_active: DatabaseError for no row, else user.is_active
IsActiveResult(us, u) == [err |-> GetUserErr(us, u), val |-> us[u].exists /\ us[u].is_active]

\* the read calls: the log keeps the value returned in reply ("none" when the
\* call raised)
is_admin(u) ==
    /\ LET o == IsAdminResult(users, u)
       IN last' = Event("is_admin", u, 0, "", IF o.err = "none" THEN PyRepr(o.val) ELSE "none", o.err)
    /\ UNCHANGED <<users, whitelist, groups, target, fsm, binds, mcts, approved, lastTarget>>

is_active(u) ==
    /\ LET o == IsActiveResult(users, u)
       IN last' = Event("is_active", u, 0, "", IF o.err = "none" THEN PyRepr(o.val) ELSE "none", o.err)
    /\ UNCHANGED <<users, whitelist, groups, target, fsm, binds, mcts, approved, lastTarget>>

\* add_phone: INSERT; the primary key raises IntegrityError for a stored phone.
add_phone(p) ==
    /\ IF p \in whitelist
         THEN /\ whitelist' = whitelist
              /\ last' = DbEvent("add_phone", "IntegrityError")
         ELSE /\ whitelist' = whitelist \cup {p}
              /\ last' = DbEvent("add_phone", "none")
    /\ UNCHANGED <<users, groups, target, fsm, binds, mcts, approved, lastTarget>>

\* get_phone(p): the row, or None; with its user loaded.
PhoneExists(wl, p) == p \in wl

\* bind_phone_to_user, lines 114-119: the two reads; ItemNotFoundException for
\* a phone that is not stored (before any user is created); add_user for a
\* user that is not stored.
BindReadErr(wl, p) == IF PhoneExists(wl, p) THEN "none" ELSE "ItemNotFoundException"

BindReadStore(us, wl, u, p) ==
    IF PhoneExists(wl, p) THEN AddUserStore(us, u) ELSE us

\* (variant: phone_id declared without unique=True)
UniqueViolationOff(us, u, p) == FALSE

\* User.phone_id is unique: the UPDATE of the commit fails with IntegrityError
\* when another row holds the phone.
UniqueViolation(us, u, p) == BoundUsers(us, p) \ {u} # {}

\* get_phone(p).user: the id of the user loaded with the row (0: no row for
\* the phone, or no user bound to it)
GetPhoneUser(us, wl, p) ==
    IF PhoneExists(wl, p) /\ BoundUsers(us, p) # {}
    THEN CHOOSE u \in BoundUsers(us, p) : TRUE
    ELSE 0

\* bind_phone_to_user, lines 120-123: user.phone = phone; commit.
BindCommitErr(us, u, p) == IF UniqueViolation(us, u, p) THEN "IntegrityError" ELSE "none"

\* (variant: the assignment user.phone = phone left out)
BindCommitStoreNoSet(us, u, p) == us

BindCommitStore(us, u, p) ==
    IF UniqueViolation(us, u, p) THEN us ELSE [us EXCEPT ![u].phone_id = p]

\* the call as a whole, nothing interleaved
BindStore(us, wl, u, p) ==
    IF PhoneExists(wl, p) THEN BindCommitStore(BindReadStore(us, wl, u, p), u, p) ELSE us

BindErr(us, wl, u, p) ==
    IF PhoneExists(wl, p) THEN BindCommitErr(BindReadStore(us, wl, u, p), u, p)
    ELSE BindReadErr(wl, p)

bind_phone_to_user(u, p) ==
    /\ users' = BindStore(users, whitelist, u, p)
    /\ last' = Event("bind_phone_to_user", u, p, "", "none", BindErr(users, whitelist, u, p))
    /\ UNCHANGED <<whitelist, groups, target, fsm, binds, mcts, approved, lastTarget>>

\* the same call in two steps: up to the commit, then the commit
bind_read(u, p) ==
    /\ Cardinality(binds) < MaxTasks
    /\ users' = BindReadStore(users, whitelist, u, p)
    /\ binds' = IF PhoneExists(whitelist, p) THEN binds \cup {[u |-> u, p |-> p]} ELSE binds
    /\ last' = DbEvent("bind_read", BindReadErr(whitelist, p))
    /\ UNCHANGED <<whitelist, groups, target, fsm, mcts, approved, lastTarget>>

bind_commit(b) ==
    /\ b \in binds
    /\ users' = BindCommitStore(users, b.u, b.p)
    /\ binds' = binds \ {b}
    /\ last' = Event("bind_phone_to_user", b.u, b.p, "", "none", BindCommitErr(users, b.u, b.p))
    /\ UNCHANGED <<whitelist, groups, target, fsm, mcts, approved, lastTarget>>

\* add_channel: INSERT with target = False; IntegrityError for a stored id.
add_channel(g) ==
    /\ IF g \in groups
         THEN /\ groups' = groups
              /\ last' = DbEvent("add_channel", "IntegrityError")
         ELSE /\ groups' = groups \cup {g}
              /\ last' = DbEvent("add_channel", "none")
    /\ UNCHANGED <<users, whitelist, target, fsm, binds, mcts, approved, lastTarget>>

\* delete_channel: session.delete(TelegramGroup(id=channel_id)), an object
\* the session never loaded: InvalidRequestError, no row is deleted
DeleteChannelErr(gs, g) == "InvalidRequestError"

DeleteChannelStore(gs, g) == gs

\* common.save_group, the bot made a member of chat g: add_channel(g); the
\* log keeps the chat in arg
save_group(g) ==
    /\ groups' = groups \cup {g}
    /\ last' = Event("save_group", 0, g, "", "none",
                     IF g \in groups THEN "IntegrityError" ELSE "none")
    /\ UNCHANGED <<users, whitelist, target, fsm, binds, mcts, approved, lastTarget>>

\* common.delete_group, the bot removed from chat g: delete_channel(g)
delete_group(g) ==
    /\ groups' = DeleteChannelStore(groups, g)
    /\ target' = target \cap DeleteChannelStore(groups, g)
    /\ last' = Event("delete_group", 0, g, "", "none", DeleteChannelErr(groups, g))
    /\ UNCHANGED <<users, whitelist, fsm, binds, mcts, approved, lastTarget>>

\* get_target_channel: every row with target = True, as a list.
get_target_channel(tg) == tg

\* (variant: the loop that clears the previous targets left out)
MctCommitTargetNoClear(gs, tg, snap, g) ==
    IF g \in gs THEN tg \cup {g} ELSE tg

\* (variant: the cleared flags of the previous targets committed before the
\* lookup of channel_id)
MctCommitTargetFlushed(gs, tg, snap, g) ==
    IF g \in gs THEN (tg \ snap) \cup {g} ELSE tg \ snap

\* make_channel_target, lines 221-233, given the targets read at line 220:
\* c.target = False for each of them, session.get(channel_id), target = True,
\* commit.  ItemNotFoundException leaves the session uncommitted.
MctCommitErr(gs, g) == IF g \in gs THEN "none" ELSE "ItemNotFoundException"

MctCommitTarget(gs, tg, snap, g) ==
    IF g \in gs THEN (tg \ snap) \cup {g} ELSE tg

\* the call as a whole, nothing interleaved
make_channel_target(g) ==
    /\ target' = MctCommitTarget(groups, target, get_target_channel(target), g)
    /\ lastTarget' = IF g \in groups THEN g ELSE lastTarget
    /\ last' = Event("make_channel_target", 0, g, "", "none", MctCommitErr(groups, g))
    /\ UNCHANGED <<users, whitelist, groups, fsm, binds, mcts, approved>>

\* the same call in two steps: the read of the targets, then the rest
mct_read(g) ==
    /\ Cardinality(mcts) < MaxTasks
    /\ mcts' = mcts \cup {[g |-> g, snap |-> get_target_channel(target)]}
    /\ last' = DbEvent("mct_read", "none")
    /\ UNCHANGED <<users, whitelist, groups, target, fsm, binds, approved, lastTarget>>

mct_commit(m) ==
    /\ m \in mcts
    /\ target' = MctCommitTarget(groups, target, m.snap, m.g)
    /\ lastTarget' = IF m.g \in groups THEN m.g ELSE lastTarget
    /\ mcts' = mcts \ {m}
    /\ last' = Event("make_channel_target", 0, m.g, "", "none", MctCommitErr(groups, m.g))
    /\ UNCHANGED <<users, whitelist, groups, fsm, binds, approved>>

\* ------------------------------------------------------------- messages
\* F.text values the handlers compare with: "Da" and "Net" are the yes and no
\* of renew_user_phone, "Ne soglasen" is the decline button of the agreement
\* keyboard, "privet" is any other text.
Texts == {"Da", "Net", "Ne soglasen", "privet"}

\* Contact.phone_number is the ten-digit number after a country prefix.
Prefixes == {"7", "+7"}

TextMessage(t) == [text |-> t, prefix |-> "", local |-> NoPhone]
ContactMessage(pre, p) == [text |-> "", prefix |-> pre, local |-> p]

Messages ==
    {TextMessage(t) : t \in Texts} \cup {ContactMessage(x[1], x[2]) : x \in Prefixes \X Phones}

\* a message that carries a file (F.content_type == ContentType.DOCUMENT)
DocumentMessage(file) == [text |-> "", prefix |-> "", local |-> NoPhone, document |-> file]

HasDocument(m) == "document" \in DOMAIN m

\* F.contact: the message carries a contact
HasContact(m) == m.local # NoPhone

MsgKind(m) ==
    IF HasContact(m) THEN "contact" ELSE IF HasDocument(m) THEN "document" ELSE m.text

\* int(message.contact.phone_number[-10:]): the prefix is cut off
ContactPhone(m) == m.local

\* ------------------------------------------------------- Python values
PyStr(s) == [type |-> "str", val |-> s]
PyMessage(m) == [type |-> "Message", val |-> MsgKind(m)]
PyBool(b) == [type |-> "bool", val |-> b]
\* the value of calling an async def without await
PyCoroutine == [type |-> "coroutine", val |-> FALSE]

\* ==: values of different types are not equal
PyEq(a, b) == a.type = b.type /\ a.val = b.val

\* bool(v): False only for the bool False; a coroutine object is true
PyTruthy(v) == IF v.type = "bool" THEN v.val ELSE TRUE

\* a call that leaves out required positional parameters raises TypeError
MissingArgs(params, given) == params \ given

\* ------------------------------------------------- service/registration
AnswerRegistrationSuccesParams == {"message", "state", "db_manager", "bot"}

\* answer_registration_succes called with the arguments `given`: the invite
\* link of target_group[0] is sent and the state cleared.
AnswerRegistrationSucces(given, tg, f, u) ==
    IF MissingArgs(AnswerRegistrationSuccesParams, given) # {}
    THEN [err |-> "TypeError", reply |-> "none", fsm |-> f]
    ELSE IF get_target_channel(tg) = {}
    THEN [err |-> "IndexError", reply |-> "none", fsm |-> f]
    ELSE [err |-> "none", reply |-> "invite_link", fsm |-> ClearState(f, u)]

\* (variant: the test inverted, get_phone(phone) is None)
is_phone_in_whitelist_inverted(wl, p) == ~PhoneExists(wl, p)

\* get_phone(phone) is not None
is_phone_in_whitelist(wl, p) == PhoneExists(wl, p)

\* (variant: the test inverted, phone.user is None)
is_another_user_registered_inverted(us, p) == BoundUsers(us, p) = {}

\* phone.user is not None
is_another_user_registered(us, p) == BoundUsers(us, p) # {}

\* ------------------------------------------------- routers/registration
\* (variant: the filter true only for a stored user)
FilterIsNotRegisteredStored(us, f, u) ==
    /\ us[u].exists /\ ~us[u].is_active
    /\ f[u].state \notin RegisterUserStates

\* FilterIsNotRegistered: not an active user, and no RegisterUser state; the
\* filter and give_agreement read nothing of the message
FilterIsNotRegistered(us, f, u) ==
    /\ ~(us[u].exists /\ us[u].is_active)
    /\ f[u].state \notin RegisterUserStates

give_agreement(u) ==
    /\ FilterIsNotRegistered(users, fsm, u)
    /\ fsm' = SetState(fsm, u, wait_agreement)
    /\ last' = Event("give_agreement", u, 0, "", "agreement", "none")
    /\ UNCHANGED <<users, whitelist, groups, target, binds, mcts, approved, lastTarget>>

\* (variant: state.clear() left out)
ask_to_register_keeps_state(u, m) ==
    /\ fsm[u].state = wait_agreement
    /\ ~HasContact(m) /\ m.text = "Ne soglasen"
    /\ fsm' = fsm
    /\ last' = Event("ask_to_register", u, 0, MsgKind(m), "call_admin", "none")
    /\ UNCHANGED <<users, whitelist, groups, target, binds, mcts, approved, lastTarget>>

\* ask_to_register: wait_agreement and F.text == "Ne soglasen"
ask_to_register(u, m) ==
    /\ fsm[u].state = wait_agreement
    /\ ~HasContact(m) /\ m.text = "Ne soglasen"
    /\ fsm' = ClearState(fsm, u)
    /\ last' = Event("ask_to_register", u, 0, MsgKind(m), "call_admin", "none")
    /\ UNCHANGED <<users, whitelist, groups, target, binds, mcts, approved, lastTarget>>

\* the arguments register_user and renew_user_phone pass on
RegisterUserCallArgs == {"message", "state"}

\* register_user, lines 48-75: the outcome [err, reply, fsm]
RegisterUserOutcome(us, wl, tg, f, u, m) ==
    IF ~is_phone_in_whitelist(wl, ContactPhone(m))
    THEN [err |-> "none", reply |-> "not_whitelisted", fsm |-> ClearState(f, u)]
    ELSE IF is_another_user_registered(us, ContactPhone(m))
    THEN [err |-> "none", reply |-> "confirm_override",
          fsm |-> SetState(SetData(f, u, ContactPhone(m)), u, waiting_phone_changed_user)]
    ELSE AnswerRegistrationSucces(RegisterUserCallArgs, tg, f, u)

\* register_user changes no table
RegisterUserStore(us, wl, u, m) == us

register_user(u, m) ==
    /\ fsm[u].state = wait_agreement
    /\ HasContact(m)
    /\ LET o == RegisterUserOutcome(users, whitelist, target, fsm, u, m)
       IN /\ fsm' = o.fsm
          /\ last' = Event("register_user", u, ContactPhone(m), MsgKind(m), o.reply, o.err)
    /\ users' = RegisterUserStore(users, whitelist, u, m)
    /\ UNCHANGED <<whitelist, groups, target, binds, mcts, approved, lastTarget>>

\* (variant: await state.clear())
RenewFinalFsmAwaited(f, u) == ClearState(f, u)

\* state.clear() at line 89 is not awaited: the coroutine never runs
RenewFinalFsm(f, u) == f

\* renew_user_phone, lines 80-89: `match message` compares the Message object
\* with the str literals
RenewUserPhoneOutcome(tg, f, u, m) ==
    IF PyEq(PyMessage(m), PyStr("Da"))
    THEN LET o == AnswerRegistrationSucces(RegisterUserCallArgs, tg, f, u)
         IN IF o.err # "none" THEN o ELSE [o EXCEPT !.fsm = RenewFinalFsm(o.fsm, u)]
    ELSE IF PyEq(PyMessage(m), PyStr("Net"))
    THEN [err |-> "none", reply |-> "continue_previous", fsm |-> RenewFinalFsm(f, u)]
    ELSE [err |-> "none", reply |-> "yes_or_no", fsm |-> RenewFinalFsm(f, u)]

\* (variant: the pending phone rebound to the sender before the answer is read)
RenewUserPhoneStoreRebind(us, f, u, m) ==
    [v \in Users |->
        IF v = u THEN [us[v] EXCEPT !.exists = TRUE, !.phone_id = f[u].phone]
        ELSE IF us[v].phone_id = f[u].phone THEN [us[v] EXCEPT !.phone_id = NoPhone]
        ELSE us[v]]

\* renew_user_phone changes no table
RenewUserPhoneStore(us, f, u, m) == us

renew_user_phone(u, m) ==
    /\ fsm[u].state = waiting_phone_changed_user
    /\ LET o == RenewUserPhoneOutcome(target, fsm, u, m)
       IN /\ fsm' = o.fsm
          /\ last' = Event("renew_user_phone", u, 0, MsgKind(m), o.reply, o.err)
    /\ users' = RenewUserPhoneStore(users, fsm, u, m)
    /\ UNCHANGED <<whitelist, groups, target, binds, mcts, approved, lastTarget>>

\* service.registration.register_user(user_id): add_user, then
\* activate_user; no phone is read or bound
ServiceRegisterUserStore(us, u) == ActivateUserStore(AddUserStore(us, u), u)

service_register_user(u) ==
    /\ users' = ServiceRegisterUserStore(users, u)
    /\ last' = Event("service.register_user", u, 0, "", "none", "none")
    /\ UNCHANGED <<whitelist, groups, target, fsm, binds, mcts, approved, lastTarget>>

\* register_user_and_answer: register_user(message.from_user.id), then
\* answer_registration_succes with all four arguments
register_user_and_answer(u) ==
    /\ users' = ServiceRegisterUserStore(users, u)
    /\ LET o == AnswerRegistrationSucces(AnswerRegistrationSuccesParams, target, fsm, u)
       IN /\ fsm' = o.fsm
          /\ last' = Event("register_user_and_answer", u, 0, "", o.reply, o.err)
    /\ UNCHANGED <<whitelist, groups, target, binds, mcts, approved, lastTarget>>

\* give_link_to_group: answer_registration_succes with all four arguments,
\* whoever the sender is
GiveLinkCallArgs == {"message", "state", "db_manager", "bot"}

give_link_to_group(u) ==
    /\ LET o == AnswerRegistrationSucces(GiveLinkCallArgs, target, fsm, u)
       IN /\ fsm' = o.fsm
          /\ last' = Event("give_link_to_group", u, 0, "/grouplink", o.reply, o.err)
    /\ UNCHANGED <<users, whitelist, groups, target, binds, mcts, approved, lastTarget>>

\* ------------------------------------------------------ join gatekeeper
\* (variant: target_group[0].id, as answer_registration_succes reads it)
JoinTargetIdFirst(tgl) ==
    IF tgl = {} THEN [err |-> "IndexError", id |-> 0]
    ELSE [err |-> "none", id |-> CHOOSE g \in tgl : TRUE]

\* line 97, target_group.id: get_target_channel returned a list, and a list
\* has no attribute id
JoinTargetId(tgl) == [err |-> "AttributeError", id |-> 0]

\* approve_user_invite, line 36: `not db_manager.is_active(user_id)`, the
\* call not awaited
ApproveUserInviteRaises(us, u) == ~PyTruthy(PyCoroutine)

\* approve_chat_join_request: [err, approve, reply]
JoinOutcome(us, tg, u, c, userChat) ==
    LET t == JoinTargetId(get_target_channel(tg))
    IN IF t.err # "none" THEN [err |-> t.err, approve |-> FALSE, reply |-> "none"]
       ELSE IF c # t.id THEN [err |-> "none", approve |-> FALSE, reply |-> "none"]
       ELSE IF ApproveUserInviteRaises(us, u)
       THEN [err |-> "none", approve |-> FALSE,
             reply |-> IF userChat THEN "join_rejected" ELSE "none"]
       ELSE [err |-> "none", approve |-> TRUE, reply |-> "none"]

\* userChat: update.user_chat_id is set; the log keeps it in msg
approve_chat_join_request(u, c, userChat) ==
    /\ LET o == JoinOutcome(users, target, u, c, userChat)
       IN /\ approved' = IF o.approve THEN approved \cup {<<u, c>>} ELSE approved
          /\ last' = Event("approve_chat_join_request", u, c,
                            IF userChat THEN "user_chat_id" ELSE "", o.reply, o.err)
    /\ UNCHANGED <<users, whitelist, groups, target, fsm, binds, mcts, lastTarget>>

\* -------------------------------------------------------- service/excel
\* A cell value of the sheet: a str or an int, with its characters (for an
\* int the characters of str(phone)).
StrCell(cs) == [type |-> "str", chars |-> cs]
IntCell(cs) == [type |-> "int", chars |-> cs]

\* The id p of Phones stands for the mobile number 911123456p.
MobilePrefix == <<"9", "1", "1", "1", "2", "3", "4", "5", "6">>

MobileDigits(p) == MobilePrefix \o <<ToString(p)>>

\* "+7 911 123-45-6p", 8911123456p, "911123456p", "abc", "912"
FormattedCell(p) ==
    StrCell(<<"+", "7", " ", "9", "1", "1", " ", "1", "2", "3", "-", "4", "5", "-", "6", ToString(p)>>)
EightCell(p) == IntCell(<<"8">> \o MobileDigits(p))
PlainCell(p) == StrCell(MobileDigits(p))
WordCell == StrCell(<<"a", "b", "c">>)
ShortCell == StrCell(<<"9", "1", "2">>)

\* the cells of the sheets: three ways to write the number of phone 1, a
\* second mobile number (911123456 and the digit 9), a word, a short number
Cells ==
    {FormattedCell(1), EightCell(1), PlainCell(1), PlainCell(9), WordCell, ShortCell}

IsDigit(c) == c \in {"0", "1", "2", "3", "4", "5", "6", "7", "8", "9"}

\* the digits of cs from position i on, up to the first character that is
\* not a digit: what \d* takes
RECURSIVE DigitRun(_, _)
DigitRun(cs, i) ==
    IF i > Len(cs) \/ ~IsDigit(cs[i]) THEN <<>> ELSE <<cs[i]>> \o DigitRun(cs, i + 1)

\* where group 1 of re.match(r"[78]?(9\d*)", phone) starts: after a leading 7
\* or 8 that a 9 follows, or at a leading 9; 0 for no match
MatchStart(cs) ==
    IF Len(cs) >= 2 /\ cs[1] \in {"7", "8"} /\ cs[2] = "9" THEN 2
    ELSE IF Len(cs) >= 1 /\ cs[1] = "9" THEN 1
    ELSE 0

\* parse_phone_number: group 1 of the match, or None
parse_phone_number(cell) ==
    IF MatchStart(cell.chars) = 0 THEN [none |-> TRUE, digits |-> <<>>]
    ELSE [none |-> FALSE, digits |-> DigitRun(cell.chars, MatchStart(cell.chars))]

\* the list comprehension of get_phones_whitelist_from_xls over column[1:]
RECURSIVE ParseColumn(_)
ParseColumn(col) ==
    IF col = <<>> THEN <<>>
    ELSE LET r == parse_phone_number(Head(col))
         IN (IF r.none THEN <<>> ELSE <<r.digits>>) \o ParseColumn(Tail(col))

\* A file: whether the first sheet has a column headed "Telefon", and the
\* cells under that header.
XlsFile(header, col) == [header |-> header, col |-> col]

\* get_phones_whitelist_from_xls: the parsed cells of the column, or
\* ExcelParsingError when no column has the header
get_phones_whitelist_from_xls(file) ==
    IF file.header THEN [err |-> "none", numbers |-> ParseColumn(file.col)]
    ELSE [err |-> "ExcelParsingError", numbers |-> <<>>]

\* the columns of at most MaxRows cells drawn from cells
Columns(cells) == UNION {[1..n -> cells] : n \in 0..MaxRows}

\* the column of four cells that writes phone 1 three ways, then a word
ExampleColumn == <<FormattedCell(1), EightCell(1), PlainCell(1), WordCell>>

\* the files whose column is read: every column of Cells and the example,
\* with and without the header
Files == {XlsFile(h, col) : h \in BOOLEAN, col \in Columns(Cells) \cup {ExampleColumn}}

\* the cells of the files that are imported: two mobile numbers and a short
\* number
ImportCells == {PlainCell(1), PlainCell(9), ShortCell}

ImportFiles == {XlsFile(h, col) : h \in BOOLEAN, col \in Columns(ImportCells)}

\* the call get_phones_whitelist_from_xls(file) on a document received: the
\* log keeps the file in msg and the list returned in reply
read_document ==
    /\ last.h = "document"
    /\ LET r == get_phones_whitelist_from_xls(last.msg)
       IN last' = Event("get_phones_whitelist_from_xls", 0, Len(r.numbers), last.msg,
                        r.numbers, r.err)
    /\ UNCHANGED <<users, whitelist, groups, target, fsm, binds, mcts, approved, lastTarget>>

\* phone_number[-10:]
LastTen(ds) == IF Len(ds) <= 10 THEN ds ELSE SubSeq(ds, Len(ds) - 9, Len(ds))

DigitChars == <<"0", "1", "2", "3", "4", "5", "6", "7", "8", "9">>

DigitValue(c) == (CHOOSE n \in 1..10 : DigitChars[n] = c) - 1

\* the number a string of a few digits writes
RECURSIVE Decimal(_)
Decimal(ds) ==
    IF ds = <<>> THEN 0 ELSE 10 * Decimal(SubSeq(ds, 1, Len(ds) - 1)) + DigitValue(ds[Len(ds)])

\* int(phone_number[-10:]) as the model keeps a phone: the id p for the
\* digits 911123456p; any other number, which the cells here write with
\* fewer than ten digits, as its negative, so that it is no id of Phones
PhoneValue(ds) ==
    LET t == LastTen(ds)
    IN IF Len(t) = 10 /\ SubSeq(t, 1, 9) = MobilePrefix /\ t[10] # "0"
       THEN DigitValue(t[10])
       ELSE 0 - Decimal(t)

\* one pass of the loop of add_phones_from_file: add_phone inserts the row,
\* or raises (IntegrityError for a stored phone) and the except clause keeps
\* the text of the error; a table model is built without validation
ImportRowStore(wl, ds) == wl \cup {PhoneValue(ds)}

\* (variant: the first error ends the loop)
RECURSIVE ImportStoreAborting(_, _)
ImportStoreAborting(wl, numbers) ==
    IF numbers = <<>> \/ PhoneValue(Head(numbers)) \in wl THEN wl
    ELSE ImportStoreAborting(ImportRowStore(wl, Head(numbers)), Tail(numbers))

\* the loop over numbers_in_file
RECURSIVE ImportStore(_, _)
ImportStore(wl, numbers) ==
    IF numbers = <<>> THEN wl
    ELSE ImportStore(ImportRowStore(wl, Head(numbers)), Tail(numbers))

\* len(errors): the rows whose add_phone raised
RECURSIVE ImportErrors(_, _)
ImportErrors(wl, numbers) ==
    IF numbers = <<>> THEN 0
    ELSE (IF PhoneValue(Head(numbers)) \in wl THEN 1 ELSE 0)
             + ImportErrors(ImportRowStore(wl, Head(numbers)), Tail(numbers))

\* (variant: the exception of add_phones_from_file not caught)
ParsePhoneListReplyUncaught(file) ==
    IF get_phones_whitelist_from_xls(file).err = "none"
    THEN [reply |-> "import_count", err |-> "none"]
    ELSE [reply |-> "none", err |-> get_phones_whitelist_from_xls(file).err]

\* parse_phone_list, lines 61-70: the count of added phones, or after any
\* exception of add_phones_from_file the message that the file failed
ParsePhoneListReply(file) ==
    IF get_phones_whitelist_from_xls(file).err = "none"
    THEN [reply |-> "import_count", err |-> "none"]
    ELSE [reply |-> "import_failed", err |-> "none"]

\* parse_phone_list: the document of u (0: the handler called with a document
\* alone, it reads nothing of the sender); the log keeps the file in msg and
\* len(errors) in arg
parse_phone_list(u, file) ==
    /\ LET r == get_phones_whitelist_from_xls(file)
           o == ParsePhoneListReply(file)
       IN /\ whitelist' = IF r.err = "none" THEN ImportStore(whitelist, r.numbers) ELSE whitelist
          /\ last' = Event("parse_phone_list", u, ImportErrors(whitelist, r.numbers), file,
                           o.reply, o.err)
    /\ UNCHANGED <<users, groups, target, fsm, binds, mcts, approved, lastTarget>>

\* ------------------------------------------------------------------ main
\* default_admin: the row get_user(BOT_ADMIN_ID) returned, or for no row the
\* one add_user returned
DefaultAdmin(us) ==
    IF us[BOT_ADMIN_ID].exists THEN us[BOT_ADMIN_ID] ELSE AddUserResult(us, BOT_ADMIN_ID)

\* (variant: the activation of lines 40-41 left out)
BootstrapStoreNoActivate(us) ==
    LET added == IF us[BOT_ADMIN_ID].exists THEN us ELSE AddUserStore(us, BOT_ADMIN_ID)
    IN IF DefaultAdmin(us).is_admin THEN added ELSE MakeAdminStore(added, BOT_ADMIN_ID)

\* main, lines 35-41: add_user for no row, make_admin if the row is no
\* admin, activate_user if it is not active
BootstrapStore(us) ==
    LET added == IF us[BOT_ADMIN_ID].exists THEN us ELSE AddUserStore(us, BOT_ADMIN_ID)
        promoted == IF DefaultAdmin(us).is_admin THEN added ELSE MakeAdminStore(added, BOT_ADMIN_ID)
    IN IF DefaultAdmin(us).is_active THEN promoted ELSE ActivateUserStore(promoted, BOT_ADMIN_ID)

\* the bootstrap of main, before start_polling; the log keeps in msg what
\* get_user returned
main ==
    /\ users' = BootstrapStore(users)
    /\ last' = Event("main", BOT_ADMIN_ID, 0,
                     IF users[BOT_ADMIN_ID].exists THEN RowRepr(users[BOT_ADMIN_ID]) ELSE "None",
                     "none", "none")
    /\ UNCHANGED <<whitelist, groups, target, fsm, binds, mcts, approved, lastTarget>>

\* ---------------------------------------------------------- service/user
\* The user id handed to make_admin and delete_user: an int, or a str (the
\* text of a message), with the characters that write it.
IntArg(n) == [type |-> "int", text |-> ToString(n)]
StrArg(t) == [type |-> "str", text |-> t]

\* the texts of the messages: the ids of Users in digits, and a word
IdTexts == {ToString(u) : u \in Users} \cup {"abc"}

UserIdArgs == {IntArg(u) : u \in Users} \cup {StrArg(t) : t \in IdTexts}

\* int(user_id): the id the digits write; ValueError for any other text
IsNumeric(t) == \E u \in Users : ToString(u) = t
IntOf(t) == CHOOSE u \in Users : ToString(u) = t

\* lines 18-22 and 27-31: a str that int() refuses raises InvalidInputError
UserIdErr(a) == IF a.type = "str" /\ ~IsNumeric(a.text) THEN "InvalidInputError" ELSE "none"

\* user.make_admin: the conversion, then DatabaseManager.make_admin; the log
\* keeps the converted id in u (0: not converted) and the characters in msg
UserMakeAdminErr(us, a) ==
    IF UserIdErr(a) # "none" THEN UserIdErr(a) ELSE GetUserErr(us, IntOf(a.text))

UserMakeAdminStore(us, a) ==
    IF UserIdErr(a) # "none" THEN us ELSE MakeAdminStore(us, IntOf(a.text))

user_make_admin(a) ==
    /\ users' = UserMakeAdminStore(users, a)
    /\ last' = Event("user.make_admin", IF UserIdErr(a) = "none" THEN IntOf(a.text) ELSE 0, 0,
                     a.text, "none", UserMakeAdminErr(users, a))
    /\ UNCHANGED <<whitelist, groups, target, fsm, binds, mcts, approved, lastTarget>>

\* user.delete_user: the conversion, then db_manager.delete_user(...), a
\* method DatabaseManager does not have: AttributeError, nothing stored
UserDeleteUserErr(us, a) ==
    IF UserIdErr(a) # "none" THEN UserIdErr(a) ELSE "AttributeError"

UserDeleteUserStore(us, a) == us

user_delete_user(a) ==
    /\ users' = UserDeleteUserStore(users, a)
    /\ last' = Event("user.delete_user", IF UserIdErr(a) = "none" THEN IntOf(a.text) ELSE 0, 0,
                     a.text, "none", UserDeleteUserErr(users, a))
    /\ UNCHANGED <<whitelist, groups, target, fsm, binds, mcts, approved, lastTarget>>

\* admin.add_admin, the handler given the message t of u: user.make_admin(
\* message.text), then the answer and state.clear(); an exception of the call
\* is not caught, so nothing is answered and the state is kept
add_admin(u, t) ==
    LET err == UserMakeAdminErr(users, StrArg(t))
    IN /\ users' = UserMakeAdminStore(users, StrArg(t))
       /\ fsm' = IF err = "none" THEN ClearState(fsm, u) ELSE fsm
       /\ last' = Event("add_admin", u, 0, t, IF err = "none" THEN "now_admin" ELSE "none", err)
       /\ UNCHANGED <<whitelist, groups, target, binds, mcts, approved, lastTarget>>

\* admin.delete_user, the handler given the message t of u
admin_delete_user(u, t) ==
    LET err == UserDeleteUserErr(users, StrArg(t))
    IN /\ users' = UserDeleteUserStore(users, StrArg(t))
       /\ fsm' = IF err = "none" THEN ClearState(fsm, u) ELSE fsm
       /\ last' = Event("delete_user", u, 0, t, IF err = "none" THEN "deleted" ELSE "none", err)
       /\ UNCHANGED <<whitelist, groups, target, binds, mcts, approved, lastTarget>>

TypeOK ==
    /\ users \in [Users -> [exists : BOOLEAN, is_admin : BOOLEAN, is_active : BOOLEAN,
                            phone_id : Phones \cup {NoPhone}]]
    /\ whitelist \subseteq Phones \cup {PhoneValue(c.chars) : c \in {PlainCell(9), ShortCell}}
    /\ groups \subseteq Groups
    /\ target \subseteq groups
    /\ fsm \in [Users -> [state : {NoState} \cup RegisterUserStates, phone : Phones \cup {NoPhone}]]
    /\ binds \subseteq [u : Users, p : Phones]
    /\ mcts \subseteq [g : Groups, snap : SUBSET Groups]
    /\ approved \subseteq Users \X Groups
    /\ lastTarget \in Groups \cup {0}

\* ------------------------------------------------------------ dispatch
\* (variant: the admin router without its filter)
admin_only_open(us, u) == TRUE

\* admin_only: `user and user.is_admin or False`, user being the row that
\* GetUserMiddleware read (None when there is no row)
admin_only(us, u) == us[u].exists /\ us[u].is_admin

\* (variant: the test of cmd_start always false)
active_only_never(us, u) == FALSE

\* active_only: `user and user.is_active or False`
active_only(us, u) == us[u].exists /\ us[u].is_active

\* the updates fed to the dispatcher: "Otmena" is the text of the cancel
\* handler, "/start" the start command, "privet" any other text
RouteTexts == {"Otmena", "/start", "privet", "Ne soglasen"}

RouteMessages ==
    {TextMessage(t) : t \in RouteTexts} \cup {ContactMessage("+7", p) : p \in Phones}

\* CallbackQuery.data
CallbackData == {"cancel"}

\* admin.cancel: the answer, then state.clear(); k is what the event carried
cancel(u, k) ==
    /\ fsm' = ClearState(fsm, u)
    /\ last' = Event("cancel", u, 0, k, "cancelled", "none")
    /\ UNCHANGED <<users, whitelist, groups, target, binds, mcts, approved, lastTarget>>

\* cmd_start: create_menu for a stored user; give_agreement(message, state)
\* called as a function for a sender who is not active
cmd_start(u, m) ==
    /\ IF active_only(users, u)
         THEN /\ fsm' = fsm
              /\ last' = Event("cmd_start", u, 0, MsgKind(m), "menu", "none")
         ELSE /\ fsm' = SetState(fsm, u, wait_agreement)
              /\ last' = Event("cmd_start", u, 0, MsgKind(m), "agreement", "none")
    /\ UNCHANGED <<users, whitelist, groups, target, binds, mcts, approved, lastTarget>>

\* no handler of any router took the update
unhandled(u, k) ==
    /\ last' = Event("unhandled", u, 0, k, "none", "none")
    /\ UNCHANGED <<users, whitelist, groups, target, fsm, binds, mcts, approved, lastTarget>>

\* the commands of the admin router, a text no handler names, and the
\* documents: a one-cell sheet per phone, with and without the header
AdminTexts == {"/select_group", "/add_admin", "/delete_user", "privet"}

AdminMessages ==
    {TextMessage(t) : t \in AdminTexts}
        \cup {DocumentMessage(XlsFile(h, <<PlainCell(p)>>)) : h \in BOOLEAN, p \in Phones}

\* the data of the buttons of get_select_group_kb: str(group.id)
GroupCallbackData == {ToString(g) : g \in Groups}

\* ask_to_select_target_group: get_select_group_kb calls
\* db_manager.get_registered_chanels(), a name DatabaseManager does not have:
\* AttributeError before the answer and before set_state
ask_to_select_target_group(u) ==
    /\ last' = Event("ask_to_select_target_group", u, 0, "/select_group", "none", "AttributeError")
    /\ UNCHANGED <<users, whitelist, groups, target, fsm, binds, mcts, approved, lastTarget>>

\* add_admin_start: set_state(states.AddAdmin.user_id_recieved), a state
\* group states.py does not define: AttributeError, the state is not set
add_admin_start(u) ==
    /\ last' = Event("add_admin_start", u, 0, "/add_admin", "none", "AttributeError")
    /\ UNCHANGED <<users, whitelist, groups, target, fsm, binds, mcts, approved, lastTarget>>

\* delete_user_start: set_state(states.DeleteUser.user_id_recieved), likewise
delete_user_start(u) ==
    /\ last' = Event("delete_user_start", u, 0, "/delete_user", "none", "AttributeError")
    /\ UNCHANGED <<users, whitelist, groups, target, fsm, binds, mcts, approved, lastTarget>>

\* routers/admin.py, message handlers in order, behind router.message.filter(
\* admin_only); the handlers add_admin and delete_user wait for a state that
\* is never set
AdminMessageRoute(us, f, u, m) ==
    IF ~admin_only(us, u) THEN "none"
    ELSE IF ~HasContact(m) /\ m.text = "Otmena" THEN "cancel"
    ELSE IF HasDocument(m) THEN "parse_phone_list"
    ELSE IF m.text = "/select_group" THEN "ask_to_select_target_group"
    ELSE IF m.text = "/add_admin" THEN "add_admin_start"
    ELSE IF m.text = "/delete_user" THEN "delete_user_start"
    ELSE "none"

\* routers/registration.py, message handlers in order
RegistrationMessageRoute(us, f, u, m) ==
    IF FilterIsNotRegistered(us, f, u) THEN "give_agreement"
    ELSE IF f[u].state = wait_agreement /\ ~HasContact(m) /\ m.text = "Ne soglasen"
    THEN "ask_to_register"
    ELSE IF f[u].state = wait_agreement /\ HasContact(m) THEN "register_user"
    ELSE IF f[u].state = waiting_phone_changed_user THEN "renew_user_phone"
    ELSE IF ~HasContact(m) /\ m.text = "/grouplink" THEN "give_link_to_group"
    ELSE "none"

\* routers/common.py, message handlers in order
CommonMessageRoute(us, f, u, m) ==
    IF ~HasContact(m) /\ m.text = "/start" THEN "cmd_start" ELSE "none"

\* dp.include_router(admin.router), (registration.router), (common.router):
\* the first handler whose filters pass takes the message
MessageRoute(us, f, u, m) ==
    IF AdminMessageRoute(us, f, u, m) # "none" THEN AdminMessageRoute(us, f, u, m)
    ELSE IF RegistrationMessageRoute(us, f, u, m) # "none" THEN RegistrationMessageRoute(us, f, u, m)
    ELSE IF CommonMessageRoute(us, f, u, m) # "none" THEN CommonMessageRoute(us, f, u, m)
    ELSE "unhandled"

\* the dispatcher gives the message m of u to the handler h
Routed(u, m, h) == MessageRoute(users, fsm, u, m) = h

\* the callback handlers: admin.cancel behind router.callback_query.filter(
\* admin_only); the registration and common routers have none
CallbackRoute(us, f, u, d) ==
    IF admin_only(us, u) /\ d = "cancel" THEN "cancel" ELSE "unhandled"

\* a callback query of u given to the dispatcher
feed_callback_query(u, d) ==
    LET h == CallbackRoute(users, fsm, u, d)
    IN \/ h = "cancel" /\ cancel(u, "callback:" \o d)
       \/ h = "unhandled" /\ unhandled(u, "callback:" \o d)

\* ------------------------------------------------------- specifications
\* the registration workflow: its handlers, and the store calls each as a whole
Next ==
    \/ \E u \in Users : add_user(u)
    \/ \E u \in Users : activate_user(u)
    \/ \E p \in Phones : add_phone(p)
    \/ \E u \in Users, p \in Phones : bind_phone_to_user(u, p)
    \/ \E u \in Users : give_agreement(u)
    \/ \E u \in Users, m \in Messages : ask_to_register(u, m)
    \/ \E u \in Users, m \in Messages : register_user(u, m)
    \/ \E u \in Users, m \in Messages : renew_user_phone(u, m)

Spec == Init /\ [][Next]_vars

\* the join gatekeeper: join requests, and the store calls each as a whole
NextJoin ==
    \/ \E u \in Users : add_user(u)
    \/ \E u \in Users : activate_user(u)
    \/ \E g \in Groups : add_channel(g)
    \/ \E g \in Groups : make_channel_target(g)
    \/ \E u \in Users, c \in Groups, userChat \in BOOLEAN : approve_chat_join_request(u, c, userChat)

SpecJoin == Init /\ [][NextJoin]_vars

\* the user and whitelist stores under concurrent bind_phone_to_user calls,
\* with the registration steps: a shared contact, and the override answer
NextStore ==
    \/ \E u \in Users : add_user(u)
    \/ \E p \in Phones : add_phone(p)
    \/ \E u \in Users, p \in Phones : bind_read(u, p)
    \/ \E b \in binds : bind_commit(b)
    \/ \E u \in Users : give_agreement(u)
    \/ \E u \in Users, m \in Messages : register_user(u, m)
    \/ \E u \in Users : renew_user_phone(u, TextMessage("Da"))

SpecStore == Init /\ [][NextStore]_vars

\* the group registry under concurrent make_channel_target calls
NextGroup ==
    \/ \E g \in Groups : add_channel(g)
    \/ \E g \in Groups : mct_read(g)
    \/ \E m \in mcts : mct_commit(m)

SpecGroup == Init /\ [][NextGroup]_vars

\* the User table under the calls of DatabaseManager that write and read the
\* flags of a row
NextUser ==
    \/ \E u \in Users : add_user(u)
    \/ \E u \in Users : make_admin(u)
    \/ \E u \in Users : revoke_admin(u)
    \/ \E u \in Users : activate_user(u)
    \/ \E u \in Users : deactivate_user(u)
    \/ \E u \in Users : is_admin(u)
    \/ \E u \in Users : is_active(u)

SpecUser == Init /\ [][NextUser]_vars

\* the dispatcher: messages and callback queries routed through the admin,
\* registration and common routers, with the store calls that make a user
\* stored, an admin, or active.  The whitelist stays empty here, so no contact
\* is accepted and waiting_phone_changed_user is not entered.
NextRoute ==
    \/ \E u \in Users : add_user(u)
    \/ \E u \in Users : make_admin(u)
    \/ \E u \in Users : activate_user(u)
    \/ \E u \in Users, m \in RouteMessages : Routed(u, m, "cancel") /\ cancel(u, MsgKind(m))
    \/ \E u \in Users, m \in RouteMessages : Routed(u, m, "give_agreement") /\ give_agreement(u)
    \/ \E u \in Users, m \in RouteMessages : Routed(u, m, "ask_to_register") /\ ask_to_register(u, m)
    \/ \E u \in Users, m \in RouteMessages : Routed(u, m, "register_user") /\ register_user(u, m)
    \/ \E u \in Users, m \in RouteMessages : Routed(u, m, "cmd_start") /\ cmd_start(u, m)
    \/ \E u \in Users, m \in RouteMessages : Routed(u, m, "unhandled") /\ unhandled(u, MsgKind(m))
    \/ \E u \in Users, d \in CallbackData : feed_callback_query(u, d)

SpecRoute == Init /\ [][NextRoute]_vars

\* the bulk import: the documents an admin sends, and the call that binds
\* an imported phone to a user
NextImport ==
    \/ \E u \in Users, p \in Phones : bind_phone_to_user(u, p)
    \/ \E file \in ImportFiles : parse_phone_list(0, file)

SpecImport == Init /\ [][NextImport]_vars

\* the reading of a document: any file of Files received, then read
InitParse ==
    /\ users = [u \in Users |-> NoRow]
    /\ whitelist = {}
    /\ groups = {}
    /\ target = {}
    /\ fsm = [u \in Users |-> FsmEmpty]
    /\ binds = {}
    /\ mcts = {}
    /\ approved = {}
    /\ \E file \in Files : last = Event("document", 0, 0, file, "none", "none")
    /\ lastTarget = 0

NextParse == read_document

SpecParse == InitParse /\ [][NextParse]_vars

\* the admin router: the commands, documents and buttons of any user, with
\* the store calls that make a user an admin
NextAdmin ==
    \/ \E u \in Users : add_user(u)
    \/ \E u \in Users : make_admin(u)
    \/ \E u \in Users, m \in AdminMessages :
          Routed(u, m, "parse_phone_list") /\ parse_phone_list(u, m.document)
    \/ \E u \in Users, m \in AdminMessages :
          Routed(u, m, "ask_to_select_target_group") /\ ask_to_select_target_group(u)
    \/ \E u \in Users, m \in AdminMessages : Routed(u, m, "add_admin_start") /\ add_admin_start(u)
    \/ \E u \in Users, m \in AdminMessages :
          Routed(u, m, "delete_user_start") /\ delete_user_start(u)
    \/ \E u \in Users, m \in AdminMessages : Routed(u, m, "give_agreement") /\ give_agreement(u)
    \/ \E u \in Users, m \in AdminMessages : Routed(u, m, "unhandled") /\ unhandled(u, MsgKind(m))
    \/ \E u \in Users, d \in CallbackData \cup GroupCallbackData : feed_callback_query(u, d)

SpecAdmin == Init /\ [][NextAdmin]_vars

\* the registration session of users who are no admins: the whitelist and
\* the bindings, and every message and button of a user given to the
\* dispatcher
SessionTexts == {"Da", "Net", "Otmena", "Ne soglasen"}

SessionMessages ==
    {TextMessage(t) : t \in SessionTexts} \cup {ContactMessage("+7", p) : p \in Phones}

\* the message m of u given to the dispatcher
SessionFeed(u, m) ==
    \/ Routed(u, m, "give_agreement") /\ give_agreement(u)
    \/ Routed(u, m, "ask_to_register") /\ ask_to_register(u, m)
    \/ Routed(u, m, "register_user") /\ register_user(u, m)
    \/ Routed(u, m, "renew_user_phone") /\ renew_user_phone(u, m)
    \/ Routed(u, m, "unhandled") /\ unhandled(u, MsgKind(m))

\* the button "cancel" pressed by u
SessionCallback(u) ==
    CallbackRoute(users, fsm, u, "cancel") = "unhandled" /\ unhandled(u, "callback:cancel")

NextSession ==
    \/ \E p \in Phones : add_phone(p)
    \/ \E u \in Users, p \in Phones : bind_phone_to_user(u, p)
    \/ \E u \in Users, m \in SessionMessages : SessionFeed(u, m)
    \/ \E u \in Users : SessionCallback(u)

\* every user goes on sending every message and pressing the button
SpecSession ==
    /\ Init
    /\ [][NextSession]_vars
    /\ \A u \in Users : \A m \in SessionMessages : SF_vars(SessionFeed(u, m))
    /\ \A u \in Users : SF_vars(SessionCallback(u))

\* the start of the bot over any store an earlier run left: the rows and
\* flags of the users, then the bootstrap
NextBoot ==
    \/ \E u \in Users : add_user(u)
    \/ \E u \in Users : make_admin(u)
    \/ \E u \in Users : revoke_admin(u)
    \/ \E u \in Users : activate_user(u)
    \/ \E u \in Users : deactivate_user(u)
    \/ main

SpecBoot == Init /\ [][NextBoot]_vars

\* the activation: the whitelist and the bindings, the target, and the
\* functions of service/registration that activate a user
NextActivate ==
    \/ \E p \in Phones : add_phone(p)
    \/ \E u \in Users, p \in Phones : bind_phone_to_user(u, p)
    \/ \E g \in Groups : add_channel(g)
    \/ \E g \in Groups : make_channel_target(g)
    \/ \E u \in Users : service_register_user(u)
    \/ \E u \in Users : register_user_and_answer(u)

SpecActivate == Init /\ [][NextActivate]_vars

\* the /grouplink command: the users stored and activated, the target
\* chosen, and the messages of any user given to the dispatcher
LinkTexts == {"/grouplink", "privet"}

LinkMessages == {TextMessage(t) : t \in LinkTexts}

NextLink ==
    \/ \E u \in Users : add_user(u)
    \/ \E u \in Users : activate_user(u)
    \/ \E g \in Groups : add_channel(g)
    \/ \E g \in Groups : make_channel_target(g)
    \/ \E u \in Users, m \in LinkMessages : Routed(u, m, "give_agreement") /\ give_agreement(u)
    \/ \E u \in Users, m \in LinkMessages :
          Routed(u, m, "give_link_to_group") /\ give_link_to_group(u)
    \/ \E u \in Users, m \in LinkMessages : Routed(u, m, "unhandled") /\ unhandled(u, MsgKind(m))

SpecLink == Init /\ [][NextLink]_vars

\* the group registry as the membership updates of the bot drive it, with
\* the choice of the target
NextRegistry ==
    \/ \E g \in Groups : save_group(g)
    \/ \E g \in Groups : delete_group(g)
    \/ \E g \in Groups : mct_read(g)
    \/ \E m \in mcts : mct_commit(m)

SpecRegistry == Init /\ [][NextRegistry]_vars

\* the user management of the admin: the calls of service/user with an id
\* or a text, and the two handlers given the text of a message (their state
\* filters name states.AddAdmin and states.DeleteUser; the handlers are
\* called as functions here)
NextManage ==
    \/ \E u \in Users : add_user(u)
    \/ \E a \in UserIdArgs : user_make_admin(a)
    \/ \E a \in UserIdArgs : user_delete_user(a)
    \/ \E u \in Users, t \in IdTexts : add_admin(u, t)
    \/ \E u \in Users, t \in IdTexts : admin_delete_user(u, t)

SpecManage == Init /\ [][NextManage]_vars

\* ---------------------------------------------------------------- claims
IsActiveUser(us, u) == us[u].exists /\ us[u].is_active

\* C1: a join request for (user, chat) is approved only if chat is the target
\* group and the user is stored with is_active true at that moment.
C1_ApprovedOnlyActiveOnTarget ==
    [][\A u \in Users, c \in Groups :
          (<<u, c>> \in approved' /\ <<u, c>> \notin approved)
              => (c \in target /\ IsActiveUser(users, u))]_vars

\* a join request against the target group from a user who is not active has
\* been handled, and no approval was issued
C1_Witness ==
    /\ last.h = "approve_chat_join_request"
    /\ last.arg \in target
    /\ ~IsActiveUser(users, last.u)
    /\ <<last.u, last.arg>> \notin approved

\* C2: every phone is bound to at most one user (a user row holds one
\* phone_id, so at most one phone), and after a bind to a stored phone has
\* completed exactly one user is bound to that phone.
C2_OnePhoneOneUser ==
    /\ \A p \in Phones : Cardinality(BoundUsers(users, p)) <= 1
    /\ \A p \in Phones : BoundUsers(users, p) # {} => p \in whitelist
    /\ (last.h = "bind_phone_to_user" /\ last.err # "ItemNotFoundException")
          => Cardinality(BoundUsers(users, last.arg)) = 1

\* a bind of a phone that another user holds has completed: the caller is not
\* bound, the holder is
C2_Witness ==
    /\ last.h = "bind_phone_to_user"
    /\ last.err = "IntegrityError"
    /\ BoundUsers(users, last.arg) # {}
    /\ last.u \notin BoundUsers(users, last.arg)

\* C3: with the calls made one after the other, at most one group is the
\* target, and it is the argument of the last successful make_channel_target.
C3_SequentialSingleTarget ==
    /\ Cardinality(target) <= 1
    /\ lastTarget = 0 => target = {}
    /\ lastTarget # 0 => target = {lastTarget}

\* make_channel_target has succeeded with every group stored
C3_Witness ==
    /\ last.h = "make_channel_target"
    /\ last.err = "none"
    /\ groups = Groups
    /\ target = {lastTarget}

\* C4: no committed state has more than one target group, the calls of
\* make_channel_target interleaving.
C4_AtMostOneTarget == Cardinality(target) <= 1

\* A step with last'.h = h is a step of the handler h: every action writes its
\* own name, its sender, the phone or chat and the text it branched on to last.

\* C5: a contact with a whitelisted phone that no user holds, shared in
\* wait_agreement: the phone is bound to the sender, the sender is active, the
\* invite link is sent, the state is cleared.
C5_UnboundPhoneRegisters ==
    [][(/\ last'.h = "register_user"
        /\ last'.arg \in whitelist
        /\ BoundUsers(users, last'.arg) = {})
           => (/\ users'[last'.u].exists
               /\ users'[last'.u].phone_id = last'.arg
               /\ users'[last'.u].is_active
               /\ last'.reply = "invite_link"
               /\ fsm'[last'.u].state = NoState)]_vars

\* C6: a contact with a whitelisted phone that a different user holds, shared
\* in wait_agreement: the state becomes waiting_phone_changed_user with the
\* phone in the data, the override prompt is sent, no table changes.
C6_BoundPhoneAsksOverride ==
    [][(/\ last'.h = "register_user"
        /\ last'.arg \in whitelist
        /\ BoundUsers(users, last'.arg) \ {last'.u} # {})
           => (/\ fsm[last'.u].state = wait_agreement
               /\ fsm'[last'.u] = [state |-> waiting_phone_changed_user, phone |-> last'.arg]
               /\ last'.reply = "confirm_override"
               /\ last'.err = "none"
               /\ users' = users
               /\ whitelist' = whitelist)]_vars

\* the sender of the contact waits in waiting_phone_changed_user for a phone
\* that another user holds
C6_Witness ==
    /\ last.h = "register_user"
    /\ last.reply = "confirm_override"
    /\ fsm[last.u] = [state |-> waiting_phone_changed_user, phone |-> last.arg]
    /\ BoundUsers(users, last.arg) \ {last.u} # {}

\* C7: "Da" in waiting_phone_changed_user: the pending phone is bound to the
\* sender and to nobody else, the sender is active, the invite link is sent,
\* the state is cleared.
C7_YesRebinds ==
    [][(last'.h = "renew_user_phone" /\ last'.msg = "Da")
           => (/\ BoundUsers(users', fsm[last'.u].phone) = {last'.u}
               /\ users'[last'.u].is_active
               /\ last'.reply = "invite_link"
               /\ fsm'[last'.u].state = NoState)]_vars

\* C8: "Net" in waiting_phone_changed_user: the reply is that the previous
\* account may be used, and the state is cleared.
C8_NoClearsState ==
    [][(last'.h = "renew_user_phone" /\ last'.msg = "Net")
           => (/\ last'.reply = "continue_previous"
               /\ fsm'[last'.u].state = NoState)]_vars

\* C9: "Net" in waiting_phone_changed_user changes no table: the sender stays
\* inactive and unbound, the phone stays with its holder.
C9_NoLeavesStores ==
    [][(last'.h = "renew_user_phone" /\ last'.msg = "Net")
           => (/\ fsm[last'.u].state = waiting_phone_changed_user
               /\ users' = users
               /\ whitelist' = whitelist
               /\ groups' = groups
               /\ target' = target)]_vars

\* B, inactive and unbound, has answered "Net" about a phone that A holds
C9_Witness ==
    /\ last.h = "renew_user_phone"
    /\ last.msg = "Net"
    /\ ~IsActiveUser(users, last.u)
    /\ users[last.u].phone_id = NoPhone
    /\ fsm[last.u].phone # NoPhone
    /\ BoundUsers(users, fsm[last.u].phone) \ {last.u} # {}

\* C10: anything but "Da" and "Net" in waiting_phone_changed_user: the reply
\* asks for yes or no, the state and the pending phone stay, no table changes.
C10_OtherAnswerKeepsState ==
    [][(last'.h = "renew_user_phone" /\ last'.msg \notin {"Da", "Net"})
           => (/\ last'.reply = "yes_or_no"
               /\ last'.err = "none"
               /\ fsm[last'.u].state = waiting_phone_changed_user
               /\ fsm'[last'.u] = fsm[last'.u]
               /\ users' = users
               /\ whitelist' = whitelist
               /\ groups' = groups
               /\ target' = target)]_vars

\* another text has been answered in waiting_phone_changed_user
C10_Witness ==
    /\ last.h = "renew_user_phone"
    /\ last.msg = "privet"
    /\ last.reply = "yes_or_no"
    /\ fsm[last.u].state = waiting_phone_changed_user
    /\ fsm[last.u].phone # NoPhone

\* C11: a contact whose phone is not in the whitelist, shared in
\* wait_agreement: the reply is that the number is not registered, the state
\* is cleared, and no user row changes (the sender is neither bound nor
\* activated).
C11_UnlistedPhoneRefused ==
    [][(last'.h = "register_user" /\ last'.arg \notin whitelist)
           => (/\ fsm[last'.u].state = wait_agreement
               /\ last'.reply = "not_whitelisted"
               /\ last'.err = "none"
               /\ fsm'[last'.u] = [state |-> NoState, phone |-> NoPhone]
               /\ users' = users
               /\ whitelist' = whitelist)]_vars

\* the sender of a contact that is not in the whitelist has been refused, and
\* is neither bound nor active
C11_Witness ==
    /\ last.h = "register_user"
    /\ last.arg \notin whitelist
    /\ last.reply = "not_whitelisted"
    /\ fsm[last.u].state = NoState
    /\ users[last.u].phone_id = NoPhone
    /\ ~IsActiveUser(users, last.u)

\* C12: "Ne soglasen" in wait_agreement: the reply is the contact-admin
\* message, the state is cleared, and no user row changes (the sender stays
\* inactive and unbound).
C12_DeclineClearsState ==
    [][(last'.h = "ask_to_register")
           => (/\ fsm[last'.u].state = wait_agreement
               /\ last'.msg = "Ne soglasen"
               /\ last'.reply = "call_admin"
               /\ last'.err = "none"
               /\ fsm'[last'.u] = [state |-> NoState, phone |-> NoPhone]
               /\ users' = users
               /\ whitelist' = whitelist)]_vars

\* the sender has declined, and is neither bound nor active
C12_Witness ==
    /\ last.h = "ask_to_register"
    /\ last.reply = "call_admin"
    /\ fsm[last.u].state = NoState
    /\ users[last.u].phone_id = NoPhone
    /\ ~IsActiveUser(users, last.u)

\* the handlers a message can be given to, and "unhandled" for none of them
MessageHandlers ==
    {"cancel", "give_agreement", "ask_to_register", "register_user",
     "renew_user_phone", "cmd_start", "unhandled"}

\* the step is the dispatch of a message (not of a callback query) of last'.u
IsMessageStep == last'.h \in MessageHandlers /\ last'.msg # "callback:cancel"

C14_CancelClearsState ==
    [][(/\ last'.h \in MessageHandlers
        /\ last'.msg \in {"Otmena", "callback:cancel"}
        /\ fsm[last'.u].state \in RegisterUserStates)
           => (/\ last'.reply = "cancelled"
               /\ fsm'[last'.u].state = NoState)]_vars

\* C15: a join request against the target group from a user stored with
\* is_active true is approved: approve_chat_join_request is issued for that
\* user and chat.
C15_ActiveOnTargetApproved ==
    [][(/\ last'.h = "approve_chat_join_request"
        /\ last'.arg \in target
        /\ IsActiveUser(users, last'.u))
           => <<last'.u, last'.arg>> \in approved']_vars

\* C16: a join request for a chat that is not the target group (no target
\* group included) is ignored: the handler returns without an error, issues
\* no approval, sends no message and changes no table.
C16_OtherChatIgnored ==
    [][(/\ last'.h = "approve_chat_join_request"
        /\ last'.arg \notin target)
           => (/\ last'.err = "none"
               /\ last'.reply = "none"
               /\ approved' = approved
               /\ users' = users
               /\ whitelist' = whitelist
               /\ groups' = groups
               /\ target' = target)]_vars

\* C17: a join request against the target group from a requester who is not
\* active (no row included): the handler ends without an error, issues no
\* approval, and the rejection is sent exactly when update.user_chat_id is
\* set.
C17_InactiveRejected ==
    [][(/\ last'.h = "approve_chat_join_request"
        /\ last'.arg \in target
        /\ ~IsActiveUser(users, last'.u))
           => (/\ last'.err = "none"
               /\ approved' = approved
               /\ (last'.reply = "join_rejected" <=> last'.msg = "user_chat_id"))]_vars

\* C18 as stated: after bind_phone_to_user(u, p) for a stored phone p,
\* get_phone(p) has u as its user and u is stored; for a phone that is not
\* stored the call raises ItemNotFoundException and changes no table.
C18_BindThenGetPhone ==
    [][(last'.h = "bind_phone_to_user")
           => IF last'.arg \in whitelist
              THEN /\ GetPhoneUser(users', whitelist', last'.arg) = last'.u
                   /\ users'[last'.u].exists
              ELSE /\ last'.err = "ItemNotFoundException"
                   /\ users' = users
                   /\ whitelist' = whitelist]_vars

\* C18 amended: for a stored phone p that no other user holds, after
\* bind_phone_to_user(u, p) get_phone(p) has u as its user, u being created
\* if it was not stored; for a stored phone that another user holds the call
\* raises IntegrityError, u is stored and every binding is as before; for a
\* phone that is not stored the call raises ItemNotFoundException and changes
\* no table.
C18_BindThenGetPhoneUnlessHeld ==
    [][(last'.h = "bind_phone_to_user")
           => IF last'.arg \notin whitelist
              THEN /\ last'.err = "ItemNotFoundException"
                   /\ users' = users
                   /\ whitelist' = whitelist
              ELSE IF BoundUsers(users, last'.arg) \ {last'.u} = {}
              THEN /\ last'.err = "none"
                   /\ GetPhoneUser(users', whitelist', last'.arg) = last'.u
                   /\ users'[last'.u].exists
                   /\ \A v \in Users \ {last'.u} : users'[v] = users[v]
              ELSE /\ last'.err = "IntegrityError"
                   /\ users'[last'.u].exists
                   /\ \A v \in Users : users'[v].phone_id = users[v].phone_id
                   /\ \A v \in Users \ {last'.u} : users'[v] = users[v]]_vars

\* bind_phone_to_user has bound a stored phone to its caller, and get_phone
\* of the phone has the caller as its user
C18_Witness ==
    /\ last.h = "bind_phone_to_user"
    /\ last.err = "none"
    /\ last.arg \in whitelist
    /\ GetPhoneUser(users, whitelist, last.arg) = last.u
    /\ users[last.u].phone_id = last.arg

\* the calls that set a flag of a User row
FlagSetters == {"activate_user", "deactivate_user", "make_admin", "revoke_admin"}

C20_IsAdminFalseIsActiveRaises ==
    [][(last'.h \in {"is_admin", "is_active"} /\ ~users[last'.u].exists)
           => (/\ users' = users
               /\ ~users'[last'.u].exists
               /\ last'.h = "is_admin" => (last'.err = "none" /\ last'.reply = "False")
               /\ last'.h = "is_active" => (last'.err # "none" /\ last'.reply = "none"))]_vars

\* is_admin has returned False for an id with no row
C20_Witness ==
    /\ last.h = "is_admin"
    /\ ~users[last.u].exists
    /\ last.reply = "False"
    /\ last.err = "none"

\* C21: add_user for an id that has a row raises no error, leaves the row as
\* it is, and returns that row (its is_admin, is_active and phone_id).
C21_AddUserIdempotent ==
    [][(last'.h = "add_user" /\ users[last'.u].exists)
           => (/\ last'.err = "none"
               /\ users' = users
               /\ last'.reply = RowRepr(users[last'.u]))]_vars

\* C22: make_channel_target for an id with no TelegramGroup row raises
\* ItemNotFoundException and leaves the target flag of every row as it was.
C22_UnknownGroupKeepsTarget ==
    [][(last'.h = "make_channel_target" /\ last'.arg \notin groups)
           => (/\ last'.err = "ItemNotFoundException"
               /\ target' = target
               /\ groups' = groups
               /\ lastTarget' = lastTarget)]_vars

\* make_channel_target has failed for an id that is not stored, and the
\* group that was the target before still is
C22_Witness ==
    /\ last.h = "make_channel_target"
    /\ last.err = "ItemNotFoundException"
    /\ last.arg \notin groups
    /\ lastTarget # 0
    /\ target = {lastTarget}

\* the numbers get_phones_whitelist_from_xls returns for the file of the step
ImportedNumbers(file) == get_phones_whitelist_from_xls(file).numbers

\* C23: an import whose file has the header answers with the count whatever
\* rows fail to insert: a failed row is only counted among the errors, every
\* number of the file is in the whitelist afterwards, no stored phone is
\* removed and no user row (so no binding) changes.
C23_FailedRowKeepsImport ==
    [][(last'.h = "parse_phone_list" /\ last'.msg.header) =>
          /\ last'.err = "none"
          /\ last'.reply = "import_count"
          /\ whitelist \subseteq whitelist'
          /\ LET numbers == ImportedNumbers(last'.msg)
             IN \A i \in 1..Len(numbers) : PhoneValue(numbers[i]) \in whitelist'
          /\ users' = users]_vars

\* phone 1 bound to a user, then a file with the row of phone 1 before the
\* row of a second number: one error, both numbers stored, the binding kept
C23_Witness ==
    /\ last.h = "parse_phone_list"
    /\ last.msg = XlsFile(TRUE, <<PlainCell(1), PlainCell(9)>>)
    /\ last.arg = 1
    /\ last.reply = "import_count"
    /\ {1, 9} \subseteq whitelist
    /\ \E u \in Users : users[u].exists /\ users[u].phone_id = 1

\* C24: an import whose file has no column headed "Telefon" fails in
\* get_phones_whitelist_from_xls with ExcelParsingError, stores nothing, and
\* the sender is answered that the file failed, not with a count.
C24_NoHeaderFails ==
    [][(last'.h = "parse_phone_list" /\ ~last'.msg.header) =>
          /\ get_phones_whitelist_from_xls(last'.msg).err = "ExcelParsingError"
          /\ whitelist' = whitelist
          /\ last'.reply = "import_failed"
          /\ last'.err = "none"]_vars

\* a file without the header whose cells write a number that is not stored
C24_Witness ==
    /\ last.h = "parse_phone_list"
    /\ last.msg = XlsFile(FALSE, <<PlainCell(1), PlainCell(9)>>)
    /\ last.reply = "import_failed"
    /\ 1 \in whitelist
    /\ 9 \notin whitelist

\* the digits a cell writes, its punctuation left out
CellDigits(cell) == SelectSeq(cell.chars, IsDigit)

\* a cell that writes a mobile number: ten digits from a 9 on, after an
\* optional country prefix 7 or 8
IsMobileCell(cell) ==
    LET ds == CellDigits(cell)
    IN \/ Len(ds) = 10 /\ ds[1] = "9"
       \/ Len(ds) = 11 /\ ds[1] \in {"7", "8"} /\ ds[2] = "9"

\* the ten digits of every cell of col that writes a mobile number, in order
RECURSIVE MobileNumbers(_)
MobileNumbers(col) ==
    IF col = <<>> THEN <<>>
    ELSE (IF IsMobileCell(Head(col)) THEN <<LastTen(CellDigits(Head(col)))>> ELSE <<>>)
             \o MobileNumbers(Tail(col))

\* C25: the list read from a file with the header has one entry for every
\* cell that writes a mobile number (with or without the prefix), that entry
\* being its ten digits, and no entry for any other cell.
C25_NormalizationKeepsMobiles ==
    (last.h = "get_phones_whitelist_from_xls" /\ last.msg.header) =>
        last.reply = MobileNumbers(last.msg.col)

\* C26: every phone stored in the whitelist is a number of the range
\* 9000000000 < phone < 9999999999, which the model writes as an id 1..9
\* (911123456p); a number outside the range is kept as its negative.
C26_WhitelistInRange == \A p \in whitelist : p \in 1..9

\* C27: the service calls make_admin and delete_user, given the id of a
\* stored user as a number or as its digits, end without error; after
\* make_admin the user is an admin, after delete_user the user has no row.
C27_NumericStringActs ==
    [][(last'.h \in {"user.make_admin", "user.delete_user"} /\ last'.u # 0
            /\ users[last'.u].exists) =>
          /\ last'.err = "none"
          /\ last'.h = "user.make_admin" => users'[last'.u].is_admin
          /\ last'.h = "user.delete_user" => ~users'[last'.u].exists]_vars

\* C28: the handlers add_admin and delete_user, given a text that is no
\* number, change no user row and answer the admin with a message: the
\* handler does not end with an exception.
C28_BadIdAnswered ==
    [][(last'.h \in {"add_admin", "delete_user"} /\ ~IsNumeric(last'.msg)) =>
          /\ users' = users
          /\ last'.reply # "none"
          /\ last'.err = "none"]_vars

\* C29: after save_group for a chat a TelegramGroup row with its id is
\* stored, not a target if the row is new; after delete_group for a chat no
\* row with its id is stored.
C29_RegistryTracksMembership ==
    [][/\ last'.h = "save_group" =>
             /\ last'.arg \in groups'
             /\ last'.arg \notin groups => last'.arg \notin target'
       /\ last'.h = "delete_group" => last'.arg \notin groups']_vars

\* the store calls made outside the dispatcher
StoreCalls == {"init", "add_user", "make_admin"}

\* a stored user whose is_admin flag is true
IsAdminUser(us, u) == us[u].exists /\ us[u].is_admin

\* C30: a message or callback whose sender is no admin (no row, or is_admin
\* false) changes no target, stores no phone, changes no is_admin flag and
\* removes no user row, whichever handler takes it.
C30_OnlyAdminsAdminister ==
    [][(last'.h \notin StoreCalls /\ ~IsAdminUser(users, last'.u)) =>
          /\ target' = target
          /\ whitelist' = whitelist
          /\ \A v \in Users : /\ users'[v].is_admin = users[v].is_admin
                               /\ users[v].exists => users'[v].exists]_vars

\* the document of a sender who is no admin went to no handler and stored
\* nothing, while another user is an admin
C30_Witness ==
    /\ last.h = "unhandled"
    /\ last.msg = "document"
    /\ ~IsAdminUser(users, last.u)
    /\ whitelist = {}
    /\ \E v \in Users : IsAdminUser(users, v)

\* C31: a handler sends the invite link only to a sender who is stored with
\* is_active true when the message is handled.
C31_LinkOnlyToActive ==
    [][last'.reply = "invite_link" => IsActiveUser(users, last'.u)]_vars

\* C32: every user with is_active true, the default admin apart, holds a
\* phone of the whitelist.
C32_ActiveUsersBound ==
    \A u \in Users \ {BOT_ADMIN_ID} :
        IsActiveUser(users, u) => users[u].phone_id \in whitelist

\* C33: a user in a state of RegisterUser (wait_agreement or
\* waiting_phone_changed_user), who goes on sending every message and pressing
\* the button, is in no state again at some later time.
C33_SessionEnds ==
    \A u \in Users : (fsm[u].state \in RegisterUserStates) ~> (fsm[u].state = NoState)

\* C34: a message or button of a sender stored with is_active true is not
\* answered with the consent prompt, does not put the sender in
\* wait_agreement, and gives a sender who is in no state no state.
C34_ActiveNeverPrompted ==
    [][(last'.h \in MessageHandlers /\ IsActiveUser(users, last'.u)) =>
          /\ last'.reply # "agreement"
          /\ fsm'[last'.u].state = wait_agreement => fsm[last'.u].state = wait_agreement
          /\ fsm[last'.u].state = NoState => fsm'[last'.u].state = NoState]_vars

\* an active user in no state has sent /start and got the menu
C34_Witness ==
    /\ last.h = "cmd_start"
    /\ last.msg = "/start"
    /\ last.reply = "menu"
    /\ IsActiveUser(users, last.u)
    /\ fsm[last.u].state = NoState

\* C35: after the bootstrap the default admin is stored with is_admin and
\* is_active true, its phone and every other row are as before, and a
\* bootstrap over a store where the default admin is already an active admin
\* changes nothing.
C35_BootstrapDefaultAdmin ==
    [][last'.h = "main" =>
          /\ users'[BOT_ADMIN_ID].exists
          /\ users'[BOT_ADMIN_ID].is_admin
          /\ users'[BOT_ADMIN_ID].is_active
          /\ users'[BOT_ADMIN_ID].phone_id = users[BOT_ADMIN_ID].phone_id
          /\ \A v \in Users \ {BOT_ADMIN_ID} : users'[v] = users[v]
          /\ (IsActiveUser(users, BOT_ADMIN_ID) /\ IsAdminUser(users, BOT_ADMIN_ID))
                => users' = users]_vars

\* the bootstrap has run over a store with no row for the default admin and
\* with another user who is neither admin nor active
C35_Witness ==
    /\ last.h = "main"
    /\ last.msg = "None"
    /\ IsAdminUser(users, BOT_ADMIN_ID)
    /\ IsActiveUser(users, BOT_ADMIN_ID)
    /\ \E v \in Users \ {BOT_ADMIN_ID} :
          users[v].exists /\ ~users[v].is_admin /\ ~users[v].is_active

====
